---- MODULE Spec2Model ----
(***************************************************************************)
(* A model of examples/expsyn/ExpSyn.ipynb: the code cells of the notebook *)
(* run top to bottom in one kernel.  The state is the kernel namespace,    *)
(* the cell and call the kernel is in, and the values the notebook keeps   *)
(* from its library calls.                                                 *)
(*                                                                         *)
(* The notebook's own statements are modelled from its cells.  What the    *)
(* bluepyopt classes compute is not in the notebook: a library call is     *)
(* entered, returns, and its result is some value the notebook cannot tell *)
(* from another except by identity.  The one thing taken from the recorded *)
(* outputs is that optimisation.run returned a hall of fame with a first   *)
(* entry.                                                                  *)
(***************************************************************************)
EXTENDS Integers, Sequences, FiniteSets

VARIABLES
    pc,          \* index in Notebook of the next code cell to run
    phase,       \* "idle", or the library call a cell is inside
    error,       \* "none" or the exception that stopped the run
    defined,     \* names bound in the kernel namespace
    printed,     \* what cell 10 printed, or NoDict
    hof,         \* the hall of fame optimisation.run returned, best first
    best_ind,    \* cell 12: hall_of_fame[0]
    best_ind_dict \* cell 12: cell_evaluator.param_dict(best_ind)

vars == <<pc, phase, error, defined, printed, hof, best_ind, best_ind_dict>>

----------------------------------------------------------------------------
(* Bounds of the model. *)

\* how many different values a library call may return
NReturn == 3
\* how many entries the returned hall of fame may have
MaxHof == 2

----------------------------------------------------------------------------
(* The notebook. *)

\* cell 7: CellModel(mechs=[pas_mech, expsyn_mech], ...)
cell_mechs == <<"pas", "expsyn">>

(* The code cells in file order.  A cell is its statements in order, each *)
(* with the names it reads and the names it binds; sub marks the statement *)
(* that subscripts hall_of_fame[0]; call is the index of the statement     *)
(* whose library call the model enters and leaves (0: none).               *)
Stmt(uses, defs) == [uses |-> uses, defs |-> defs, sub |-> FALSE]

CodeCells ==
    << [op |-> "construct", call |-> 0,
        stmts |-> << Stmt({}, {"plt"}), Stmt({}, {"os"}),
                     Stmt({}, {"bpopt"}), Stmt({}, {"ephys"}) >>],
       [op |-> "construct", call |-> 0,
        stmts |-> << Stmt({"ephys"}, {"nrn_sim"}),
                     Stmt({"ephys"}, {"morph"}),
                     Stmt({"ephys"}, {"somatic_loc"}),
                     Stmt({"ephys"}, {"somacenter_loc"}) >>],
       [op |-> "construct", call |-> 0,
        stmts |-> << Stmt({"ephys", "somatic_loc"}, {"pas_mech"}) >>],
       [op |-> "construct", call |-> 0,
        stmts |-> << Stmt({"ephys", "somacenter_loc"}, {"expsyn_mech"}) >>],
       [op |-> "construct", call |-> 0,
        stmts |-> << Stmt({"ephys", "expsyn_mech"}, {"expsyn_loc"}) >>],
       [op |-> "construct", call |-> 0,
        stmts |-> << Stmt({"ephys", "expsyn_loc"}, {"expsyn_tau_param"}) >>],
       [op |-> "construct", call |-> 0,
        stmts |-> << Stmt({"ephys", "morph", "pas_mech", "expsyn_mech",
                           "expsyn_tau_param"}, {"cell"}) >>],
       [op |-> "construct", call |-> 0,
        stmts |-> << Stmt({}, {"stim_start"}),
                     Stmt({}, {"number"}),
                     Stmt({}, {"interval"}),
                     Stmt({"ephys", "stim_start", "expsyn_loc"}, {"netstim"}),
                     Stmt({"stim_start", "interval", "number"}, {"stim_end"}),
                     Stmt({"ephys", "somacenter_loc"}, {"rec"}),
                     Stmt({"ephys", "netstim", "rec"}, {"protocol"}) >>],
       [op |-> "construct", call |-> 0,
        stmts |-> << Stmt({"ephys", "stim_start", "stim_end"},
                          {"max_volt_feature"}),
                     Stmt({"ephys", "max_volt_feature"},
                          {"max_volt_objective"}),
                     Stmt({"ephys", "max_volt_objective"}, {"score_calc"}),
                     Stmt({"ephys", "cell", "protocol", "score_calc",
                           "nrn_sim"}, {"cell_evaluator"}) >>],
       [op |-> "evaluate", call |-> 2,
        stmts |-> << Stmt({}, {"default_param_values"}),
                     Stmt({"cell_evaluator", "default_param_values"}, {}) >>],
       [op |-> "optimise", call |-> 2,
        stmts |-> << Stmt({"bpopt", "cell_evaluator"}, {"optimisation"}),
                     Stmt({"optimisation"}, {"_", "hall_of_fame"}) >>],
       [op |-> "plot", call |-> 5,
        stmts |-> << [uses |-> {"hall_of_fame"}, defs |-> {"best_ind"},
                      sub |-> TRUE],
                     Stmt({"best_ind"}, {}),
                     Stmt({"best_ind"}, {}),
                     Stmt({"cell_evaluator", "best_ind"}, {"best_ind_dict"}),
                     Stmt({"protocol", "cell", "best_ind_dict", "nrn_sim"},
                          {"responses"}),
                     Stmt({"responses"}, {"time"}),
                     Stmt({"responses"}, {"voltage"}),
                     Stmt({}, {"plt"}),
                     Stmt({"plt"}, {}),
                     Stmt({"plt", "time", "voltage"}, {}),
                     Stmt({"plt"}, {}),
                     Stmt({"plt"}, {}),
                     Stmt({"plt"}, {}) >>] >>

\* the optimisation cell run before the cell that tries out the evaluator
RunOutOfOrder ==
    [i \in 1..Len(CodeCells) |->
        CodeCells[IF i = 10 THEN 11 ELSE IF i = 11 THEN 10 ELSE i]]

\* the kernel runs the code cells top to bottom
Notebook == CodeCells

----------------------------------------------------------------------------
(* Helpers. *)

NoDict == [none |-> 0]
NoInd == [none |-> 1]

\* the values a library call may return
Returned == {[value |-> k] : k \in 1..NReturn}

\* the halls of fame optimisation.run may return: the recorded run printed
\* hall_of_fame[0], so there is a first entry
HallsOfFame == UNION {[1..n -> Returned] : n \in 1..MaxHof}

\* the names a cell's statements bind
CellDefs(c) == UNION {c.stmts[i].defs : i \in 1..Len(c.stmts)}

\* the kernel runs statements in order from namespace d; it stops at the
\* first one that reads an unbound name (or subscripts an empty list h),
\* keeping what the statements before it bound; ran counts the statements
\* that completed, n of them before these
RECURSIVE ExecFrom(_, _, _, _)
ExecFrom(stmts, d, h, n) ==
    IF stmts = <<>> THEN [defined |-> d, error |-> "none", ran |-> n]
    ELSE LET s == Head(stmts)
         IN  IF ~(s.uses \subseteq d)
             THEN [defined |-> d, error |-> "NameError", ran |-> n]
             ELSE IF s.sub /\ h = <<>>
             THEN [defined |-> d, error |-> "IndexError", ran |-> n]
             ELSE ExecFrom(Tail(stmts), d \cup s.defs, h, n + 1)

Exec(stmts, d, h) == ExecFrom(stmts, d, h, 0)

\* whether a run r of the statements stmts completed the one that binds name
Assigned(stmts, r, name) ==
    \E i \in 1..r.ran : i <= Len(stmts) /\ name \in stmts[i].defs

\* cell 12: best_ind = hall_of_fame[0]
hall_of_fame_0(h) == h[1]

----------------------------------------------------------------------------
(* State machine. *)

Init ==
    /\ pc = 1
    /\ phase = "idle"
    /\ error = "none"
    /\ defined = {}
    /\ printed = NoDict
    /\ hof = <<>>
    /\ best_ind = NoInd
    /\ best_ind_dict = NoDict

CanRun(op) ==
    /\ error = "none"
    /\ phase = "idle"
    /\ pc <= Len(Notebook)
    /\ Notebook[pc].op = op

plotVars == <<best_ind, best_ind_dict>>

\* the statements of the cell before its call, then the names the call reads
BeforeCall ==
    LET c == Notebook[pc]
    IN  Exec(SubSeq(c.stmts, 1, c.call - 1) \o
                 <<[c.stmts[c.call] EXCEPT !.defs = {}]>>,
             defined, hof)

\* the call returns: its statement binds, the rest of the cell runs
AfterCall ==
    LET c == Notebook[pc]
    IN  Exec(SubSeq(c.stmts, c.call + 1, Len(c.stmts)),
             defined \cup c.stmts[c.call].defs, hof)

\* the cell is over: on to the next one, or stopped by an exception
Leave(r) ==
    /\ defined' = r.defined
    /\ error' = r.error
    /\ pc' = IF r.error = "none" THEN pc + 1 ELSE pc

\* a cell that only constructs objects and binds names (cells 1 to 9)
RunCell ==
    /\ CanRun("construct")
    /\ Leave(Exec(Notebook[pc].stmts, defined, hof))
    /\ UNCHANGED <<phase, printed, hof, plotVars>>

\* cell 10: default_param_values is bound, then
\* cell_evaluator.evaluate_with_dicts(default_param_values) is entered
BeginEvaluate ==
    /\ CanRun("evaluate")
    /\ defined' = BeforeCall.defined
    /\ error' = BeforeCall.error
    /\ phase' = IF BeforeCall.error = "none" THEN "evaluate" ELSE phase
    /\ UNCHANGED <<pc, printed, hof, plotVars>>

\* cell 10: the call returns and its result is printed
EndEvaluate ==
    /\ phase = "evaluate"
    /\ printed' \in Returned
    /\ Leave(AfterCall)
    /\ phase' = "idle"
    /\ UNCHANGED <<hof, plotVars>>

\* cell 11: optimisation = DEAPOptimisation(...) is bound, then
\* optimisation.run(max_ngen=5) is entered
BeginOptimise ==
    /\ CanRun("optimise")
    /\ defined' = BeforeCall.defined
    /\ error' = BeforeCall.error
    /\ phase' = IF BeforeCall.error = "none" THEN "optimise" ELSE phase
    /\ UNCHANGED <<pc, printed, hof, plotVars>>

\* cell 11: run returns, its second result is bound to hall_of_fame
EndOptimise ==
    /\ phase = "optimise"
    /\ hof' \in HallsOfFame
    /\ Leave(AfterCall)
    /\ phase' = "idle"
    /\ UNCHANGED <<printed, plotVars>>

\* cell 12: best_ind = hall_of_fame[0], the two prints, its param_dict, and
\* protocol.run is entered
BeginPlot ==
    /\ CanRun("plot")
    /\ defined' = BeforeCall.defined
    /\ error' = BeforeCall.error
    /\ best_ind' = IF Assigned(Notebook[pc].stmts, BeforeCall, "best_ind")
                   THEN hall_of_fame_0(hof)
                   ELSE best_ind
    /\ IF Assigned(Notebook[pc].stmts, BeforeCall, "best_ind_dict")
       THEN best_ind_dict' \in Returned
       ELSE best_ind_dict' = best_ind_dict
    /\ phase' = IF BeforeCall.error = "none" THEN "plot" ELSE phase
    /\ UNCHANGED <<pc, printed, hof>>

\* cell 12: protocol.run returns, the rest of the cell plots the trace
EndPlot ==
    /\ phase = "plot"
    /\ Leave(AfterCall)
    /\ phase' = "idle"
    /\ UNCHANGED <<printed, hof, plotVars>>

Next ==
    \/ RunCell
    \/ BeginEvaluate
    \/ EndEvaluate
    \/ BeginOptimise
    \/ EndOptimise
    \/ BeginPlot
    \/ EndPlot

Spec == Init /\ [][Next]_vars

Finished == pc > Len(Notebook)

----------------------------------------------------------------------------
(* Properties. *)

\* C1: run top to bottom, the cells do their steps in order and skip none:
\* the simulator exists before the cell model, the cell model carries both
\* mechanisms before the protocol is defined, the evaluator exists before
\* its score is computed, and the optimiser is entered only after all of
\* these, the score included; no cell fails on the way.
C1_StepsInOrder ==
    /\ error = "none"
    /\ "cell" \in defined =>
          /\ {"nrn_sim", "pas_mech", "expsyn_mech"} \subseteq defined
          /\ cell_mechs = <<"pas", "expsyn">>
    /\ "protocol" \in defined => "cell" \in defined
    /\ "cell_evaluator" \in defined => "protocol" \in defined
    /\ (phase = "evaluate" \/ printed # NoDict) => "cell_evaluator" \in defined
    /\ (phase = "optimise" \/ "optimisation" \in defined) =>
          /\ {"nrn_sim", "cell", "protocol", "cell_evaluator"} \subseteq defined
          /\ printed # NoDict
    /\ Finished => \A i \in 1..Len(CodeCells) : CellDefs(CodeCells[i]) \subseteq defined

C1_Witness == Finished /\ "optimisation" \in defined

====
